---- MODULE Spec2Model ----
(***************************************************************************)
(* Model of the prop-firm comparison page (src/app/page.tsx): the row      *)
(* projector toFirmRows, the cheapestFee/nextBestFee memo, the table sort  *)
(* with its comparator, and the per-row "Cheapest" badge and savings note. *)
(*                                                                         *)
(* Optional values (number | null, T | undefined) are sequences of length  *)
(* at most one: None is the absent value, Some(v) a present one, so that a *)
(* present fee of 0 is distinct from an absent fee.                        *)
(***************************************************************************)
EXTENDS Integers, Sequences, FiniteSets

\* ---------------------------------------------------------------- bounds
MaxFirms == 3

\* ------------------------------------------------------- program constants
DefaultSize == 10000
PerTenK == 10000

\* ------------------------------------------------------------------ values
None == <<>>
Some(v) == <<v>>
Val(o) == o[1]

\* The selectable sizes (accountSizes) and the catalog (propFirms) come from
\* @/lib/propfirms; the page only reads them.
accountSizes == {10000, 25000}
Fees == {0, 100, 150}

\* Account tiers: every fee at the default size, one fee at the other size.
Tiers == {t \in [size : accountSizes, fee : Fees] : t.size = DefaultSize \/ t.fee = 100}

\* A firm's accounts: one or more tiers, no size listed twice.
AccountLists ==
    {<<t>> : t \in Tiers}
        \cup {p \in {<<t, u>> : t \in Tiers, u \in Tiers} : p[1].size # p[2].size}

\* The catalog: one to MaxFirms firms, firm i being its i-th entry.
Catalogs == UNION {[1..k -> AccountLists] : k \in 1..MaxFirms}

\* Sort implementations of the JavaScript engines the page can run on.
Engines == {"v8", "spidermonkey", "jsc"}

VARIABLES propFirms, engine, selectedSize, rows, cheapestFee, nextBestFee, table

vars == <<propFirms, engine, selectedSize, rows, cheapestFee, nextBestFee, table>>

\* ------------------------------------------------------------- arithmetic
RECURSIVE GCD(_, _)
GCD(a, b) == IF b = 0 THEN a ELSE GCD(b, a % b)

\* Exact quotients kept in lowest terms (num/den, den > 0).
Rat(n, d) == LET g == GCD(n, d) IN [num |-> n \div g, den |-> d \div g]
RatDiv(a, b) == Rat(a, b)
RatMul(q, k) == Rat(q.num * k, q.den)

\* ---------------------------------------------------------- row projector
\* Array.prototype.find: index of the first tier of the given size, 0 if none.
RECURSIVE FindFrom(_, _, _)
FindFrom(accounts, size, j) ==
    IF j > Len(accounts) THEN 0
    ELSE IF accounts[j].size = size THEN j
    ELSE FindFrom(accounts, size, j + 1)

find(accounts, size) == FindFrom(accounts, size, 1)

\* Mutant: the fee scaled by size / 10000 instead of 10000 / size.
feePer10kTimesSize(account) == RatDiv(account.fee * account.size, PerTenK)

feePer10kOf(account) == RatMul(RatDiv(account.fee, account.size), PerTenK)

\* Mutant: the not-found test made on the tier's fee (!account.fee), so that
\* a tier with fee 0 counts as no tier.
projectFirmFalsyFee(firms, i, size) ==
    LET j == find(firms[i], size) IN
    IF j = 0 \/ firms[i][j].fee = 0
    THEN [firm |-> i, accountSize |-> size, fee |-> None, feePer10k |-> None,
          terms |-> None]
    ELSE [firm |-> i, accountSize |-> size, fee |-> Some(firms[i][j].fee),
          feePer10k |-> Some(feePer10kOf(firms[i][j])), terms |-> Some(j)]

\* One row of toFirmRows; terms stands for the descriptive fields copied from
\* the matched tier (payoutSplit, drawdown, profitTarget, evaluationPhases,
\* minTradingDays), identified by the tier's position in the firm's list.
projectFirm(firms, i, size) ==
    LET j == find(firms[i], size) IN
    IF j = 0
    THEN [firm |-> i, accountSize |-> size, fee |-> None, feePer10k |-> None,
          terms |-> None]
    ELSE [firm |-> i, accountSize |-> size, fee |-> Some(firms[i][j].fee),
          feePer10k |-> Some(feePer10kOf(firms[i][j])), terms |-> Some(j)]

\* propFirms.map(...) from firm i on.
RECURSIVE mapFirms(_, _, _)
mapFirms(firms, i, size) ==
    IF i > Len(firms) THEN <<>>
    ELSE <<projectFirm(firms, i, size)>> \o mapFirms(firms, i + 1, size)

toFirmRows(firms, size) == mapFirms(firms, 1, size)

\* ------------------------------------------------- cheapest / next best memo
\* Insertion of one fee into an ascending list: the numeric sort (a, b) => a - b
\* uses a consistent comparator, so every engine returns the ascending list.
RECURSIVE InsertAsc(_, _)
InsertAsc(s, x) ==
    IF s = <<>> THEN <<x>>
    ELSE IF x < Head(s) THEN <<x>> \o s
    ELSE <<Head(s)>> \o InsertAsc(Tail(s), x)

RECURSIVE SortAsc(_)
SortAsc(s) == IF s = <<>> THEN <<>> ELSE InsertAsc(SortAsc(Tail(s)), Head(s))

RECURSIVE PresentFees(_)
PresentFees(rs) ==
    IF rs = <<>> THEN <<>>
    ELSE IF Head(rs).fee # None THEN <<Val(Head(rs).fee)>> \o PresentFees(Tail(rs))
    ELSE PresentFees(Tail(rs))

available(rs) == SortAsc(PresentFees(rs))

\* available[k] ?? null, k counted from 0 as in the code.
AtOrNull(s, k) == IF k + 1 <= Len(s) THEN Some(s[k + 1]) ELSE None

cheapestOf(rs) == AtOrNull(available(rs), 0)

\* Mutant: the second-smallest distinct value instead of the element at index 1.
nextBestDistinct(rs) ==
    LET a == available(rs)
        above == {a[k] : k \in 1..Len(a)} \ {a[1]}
    IN IF a = <<>> \/ above = {} THEN None
       ELSE Some(CHOOSE m \in above : \A x \in above : m <= x)

\* Mutant: the element at index 2 instead of index 1.
nextBestThird(rs) == AtOrNull(available(rs), 2)

nextBestOf(rs) == AtOrNull(available(rs), 1)

\* ------------------------------------------------------- table comparator
\* Mutant: the two null branches with their results exchanged.
cmpNullFirst(a, b) ==
    IF a.fee = None THEN 0 - 1
    ELSE IF b.fee = None THEN 1
    ELSE Val(a.fee) - Val(b.fee)

cmp(a, b) ==
    IF a.fee = None THEN 1
    ELSE IF b.fee = None THEN 0 - 1
    ELSE Val(a.fee) - Val(b.fee)

RECURSIVE Reverse(_)
Reverse(s) == IF s = <<>> THEN <<>> ELSE Append(Reverse(Tail(s)), Head(s))

\* The array with the element at 0-based index from moved to index to <= from,
\* the elements in between shifted one place to the right.
moveTo(a, from, to) ==
    SubSeq(a, 1, to) \o <<a[from + 1]>> \o SubSeq(a, to + 1, from)
        \o SubSeq(a, from + 2, Len(a))

\* ---- V8 (TimSort; an array shorter than 64 is one run extended by binary
\* insertion). Indices are 0-based as in the engine, a[k + 1] reads element k.
RECURSIVE V8RunEnd(_, _, _)
V8RunEnd(a, idx, isDescending) ==
    IF idx >= Len(a) THEN idx
    ELSE LET order == cmp(a[idx + 1], a[idx]) IN
         IF isDescending /\ order >= 0 THEN idx
         ELSE IF ~isDescending /\ order < 0 THEN idx
         ELSE V8RunEnd(a, idx + 1, isDescending)

RECURSIVE V8BinaryPos(_, _, _, _)
V8BinaryPos(a, pivot, left, right) ==
    IF left >= right THEN left
    ELSE LET mid == left + ((right - left) \div 2) IN
         IF cmp(pivot, a[mid + 1]) < 0
         THEN V8BinaryPos(a, pivot, left, mid)
         ELSE V8BinaryPos(a, pivot, mid + 1, right)

RECURSIVE V8BinaryInsertionSort(_, _)
V8BinaryInsertionSort(a, start) ==
    IF start >= Len(a) THEN a
    ELSE V8BinaryInsertionSort(
             moveTo(a, start, V8BinaryPos(a, a[start + 1], 0, start)), start + 1)

V8Sort(a) ==
    IF Len(a) < 2 THEN a
    ELSE LET isDescending == cmp(a[2], a[1]) < 0
             runLength == V8RunEnd(a, 2, isDescending)
             run == IF isDescending
                    THEN Reverse(SubSeq(a, 1, runLength)) \o SubSeq(a, runLength + 1, Len(a))
                    ELSE a
         IN V8BinaryInsertionSort(run, runLength)

\* ---- SpiderMonkey (insertion sort for short arrays): an element moves left
\* past every element e with comparefn(e, item) > 0.
RECURSIVE SMInsertPos(_, _, _)
SMInsertPos(a, item, j) ==
    IF j < 1 THEN 0
    ELSE IF cmp(a[j], item) <= 0 THEN j
    ELSE SMInsertPos(a, item, j - 1)

RECURSIVE SMInsertionSort(_, _)
SMInsertionSort(a, i) ==
    IF i > Len(a) THEN a
    ELSE SMInsertionSort(moveTo(a, i - 1, SMInsertPos(a, a[i], i - 1)), i + 1)

SMSort(a) == SMInsertionSort(a, 2)

\* ---- JavaScriptCore (bottom-up merge sort): the right element is taken
\* only when comparator(right, left) < 0.
Min(x, y) == IF x < y THEN x ELSE y

RECURSIVE JSCMerge(_, _, _, _, _)
JSCMerge(src, left, leftEnd, right, rightEnd) ==
    IF left >= leftEnd /\ right >= rightEnd THEN <<>>
    ELSE IF right < rightEnd /\ left >= leftEnd
         THEN <<src[right + 1]>> \o JSCMerge(src, left, leftEnd, right + 1, rightEnd)
    ELSE IF right < rightEnd /\ cmp(src[right + 1], src[left + 1]) < 0
         THEN <<src[right + 1]>> \o JSCMerge(src, left, leftEnd, right + 1, rightEnd)
    ELSE <<src[left + 1]>> \o JSCMerge(src, left + 1, leftEnd, right, rightEnd)

RECURSIVE JSCPass(_, _, _)
JSCPass(src, srcIndex, width) ==
    IF srcIndex >= Len(src) THEN <<>>
    ELSE LET leftEnd == Min(srcIndex + width, Len(src))
             rightEnd == Min(leftEnd + width, Len(src))
         IN JSCMerge(src, srcIndex, leftEnd, leftEnd, rightEnd)
            \o JSCPass(src, srcIndex + 2 * width, width)

RECURSIVE JSCMergeSort(_, _)
JSCMergeSort(src, width) ==
    IF width >= Len(src) THEN src
    ELSE JSCMergeSort(JSCPass(src, 0, width), 2 * width)

JSCSort(a) == JSCMergeSort(a, 1)

\* rows.slice().sort(comparator) on the engine the page runs on.
sortRows(e, rs) ==
    IF e = "v8" THEN V8Sort(rs)
    ELSE IF e = "spidermonkey" THEN SMSort(rs)
    ELSE JSCSort(rs)

\* ------------------------------------------------------------ table rows
\* Mutant: a truthiness test (cheapestFee && ...) in place of !== null.
isCheapestTruthy(row, cheapest) ==
    cheapest # None /\ Val(cheapest) # 0 /\ row.fee = cheapest

isCheapest(row, cheapest) == cheapest # None /\ row.fee = cheapest

Max(x, y) == IF x > y THEN x ELSE y

\* Mutant: the difference taken the other way round.
savingsReversed(row, cheapest, nextBest) ==
    IF isCheapest(row, cheapest) /\ row.fee # None /\ nextBest # None
    THEN Some(Max(0, Val(row.fee) - Val(nextBest)))
    ELSE None

savingsOf(row, cheapest, nextBest) ==
    IF isCheapest(row, cheapest) /\ row.fee # None /\ nextBest # None
    THEN Some(Max(0, Val(nextBest) - Val(row.fee)))
    ELSE None

renderRow(row, cheapest, nextBest) ==
    [row |-> row,
     badge |-> isCheapest(row, cheapest),
     savings |-> savingsOf(row, cheapest, nextBest)]

\* One render of Page: the memoized rows are copied (slice), the copy is
\* sorted and mapped to table rows; the memoized list itself is returned
\* untouched.
RECURSIVE mapRows(_, _, _)
mapRows(sorted, cheapest, nextBest) ==
    IF sorted = <<>> THEN <<>>
    ELSE <<renderRow(Head(sorted), cheapest, nextBest)>>
         \o mapRows(Tail(sorted), cheapest, nextBest)

\* Mutant: rows.sort(...) without slice(), the memoized list sorted in place.
rowsSortedInPlace(e, rs) == sortRows(e, rs)

\* rows.slice(): the sort works on a copy, the memoized list keeps its order.
rowsAfterRender(e, rs) == rs

\* The table body of one render: rows.slice().sort(...).map(...).
tableOf(e, rs, cheapest, nextBest) == mapRows(sortRows(e, rs), cheapest, nextBest)

\* ------------------------------------------------------------ the page
Init ==
    /\ propFirms \in Catalogs
    /\ engine \in Engines
    /\ selectedSize = DefaultSize
    /\ rows = rowsAfterRender(engine, toFirmRows(propFirms, selectedSize))
    /\ cheapestFee = cheapestOf(toFirmRows(propFirms, selectedSize))
    /\ nextBestFee = nextBestOf(toFirmRows(propFirms, selectedSize))
    /\ table = tableOf(engine, toFirmRows(propFirms, selectedSize), cheapestFee, nextBestFee)

\* useMemo: rows is recomputed when selectedSize changed, the two fees when
\* rows was recomputed; otherwise the previous value is returned.
memoRows(size) == IF size = selectedSize THEN rows ELSE toFirmRows(propFirms, size)
memoCheapest(size, rs) == IF size = selectedSize THEN cheapestFee ELSE cheapestOf(rs)
memoNextBest(size, rs) == IF size = selectedSize THEN nextBestFee ELSE nextBestOf(rs)

\* onClick of a size pill: setSelectedSize(size) and the render that follows.
SelectSize(size) ==
    /\ selectedSize' = size
    /\ cheapestFee' = memoCheapest(size, memoRows(size))
    /\ nextBestFee' = memoNextBest(size, memoRows(size))
    /\ table' = tableOf(engine, memoRows(size), cheapestFee', nextBestFee')
    /\ rows' = rowsAfterRender(engine, memoRows(size))
    /\ UNCHANGED <<propFirms, engine>>

Next == \E size \in accountSizes : SelectSize(size)

Spec == Init /\ [][Next]_vars

\* ================================================================ claims
\* Vocabulary of the claims, defined from the catalog and the rows without
\* the code's sorting.
HasTier(i, size) == \E j \in 1..Len(propFirms[i]) : propFirms[i][j].size = size
Present(rs) == {i \in 1..Len(rs) : rs[i].fee # None}
FeeAt(rs, i) == Val(rs[i].fee)
MinOver(rs, I) == CHOOSE m \in {FeeAt(rs, i) : i \in I} : \A i \in I : m <= FeeAt(rs, i)
MinFee(rs) == MinOver(rs, Present(rs))
AtMin(rs) == {i \in Present(rs) : FeeAt(rs, i) = MinFee(rs)}
Positions == 1..Len(table)

\* C1: toFirmRows(S) returns exactly one row per firm, in catalog order, each
\* with accountSize = S; a row's fee is present (a fee of 0 included) iff the
\* firm has a tier of size S; with no such tier fee, feePer10k and the
\* descriptive fields are all absent.
C1_ProjectionComplete ==
    /\ Len(rows) = Len(propFirms)
    /\ \A i \in 1..Len(rows) :
          /\ rows[i].firm = i
          /\ rows[i].accountSize = selectedSize
          /\ (rows[i].fee # None) <=> HasTier(i, selectedSize)
          /\ ~HasTier(i, selectedSize) =>
                rows[i].fee = None /\ rows[i].feePer10k = None /\ rows[i].terms = None

C1_Witness ==
    /\ Len(rows) = 3
    /\ rows[1].fee = Some(0)
    /\ rows[2].fee = None
    /\ rows[3].fee = Some(150)

\* C2: a table row carries the Cheapest badge iff its fee is present and
\* equals the minimum present fee of the selection; every firm tied at the
\* minimum is flagged and no row with an absent fee is.
C2_CheapestFlag ==
    \A k \in Positions :
        table[k].badge <=>
            (table[k].row.fee # None /\ Val(table[k].row.fee) = MinFee(rows))

C2_Witness ==
    /\ Cardinality({k \in Positions : table[k].badge}) = 2
    /\ Len(table) = 3
    /\ table[1].badge /\ table[2].badge
    /\ table[3].row.fee = None /\ ~table[3].badge

\* C3: in the sorted table every row with an absent fee comes after every
\* row with a present fee, and the present fees are in non-decreasing order,
\* on every engine's sort.
C3_AbsentLastAscending ==
    \A k \in Positions : \A l \in Positions :
        k < l =>
            /\ ~(table[k].row.fee = None /\ table[l].row.fee # None)
            /\ (table[k].row.fee # None /\ table[l].row.fee # None)
                  => Val(table[k].row.fee) <= Val(table[l].row.fee)

C3_Witness ==
    /\ Len(rows) = 3 /\ engine = "spidermonkey"
    /\ rows[1].fee = None /\ rows[2].fee = Some(150) /\ rows[3].fee = Some(100)
    /\ table[1].row.firm = 3 /\ table[2].row.firm = 2 /\ table[3].row.firm = 1

\* C4: the displayed order is stable: two firms whose rows have equal
\* present fees, or both absent fees, appear in the table in their catalog
\* order.
C4_StableOrder ==
    \A k \in Positions : \A l \in Positions :
        (k < l /\ table[k].row.fee = table[l].row.fee)
            => table[k].row.firm < table[l].row.firm

\* The part of C4 about equal present fees only.
C4_StableAmongPresent ==
    \A k \in Positions : \A l \in Positions :
        (k < l /\ table[k].row.fee # None /\ table[k].row.fee = table[l].row.fee)
            => table[k].row.firm < table[l].row.firm

\* C5: cheapestFee and nextBestFee are the elements at index 0 and 1 of the
\* ascending list of present fees counted by row: nextBestFee equals
\* cheapestFee when two rows share the minimum, is the second-smallest fee
\* otherwise, and is absent exactly when fewer than two rows have a fee.
C5_NextBestByRow ==
    LET P == Present(rows) IN
    /\ cheapestFee = (IF P = {} THEN None ELSE Some(MinFee(rows)))
    /\ nextBestFee =
          (IF Cardinality(P) < 2 THEN None
           ELSE IF Cardinality(AtMin(rows)) >= 2 THEN Some(MinFee(rows))
           ELSE Some(MinOver(rows, P \ AtMin(rows))))
    /\ (nextBestFee = None) <=> (Cardinality(P) < 2)

C5_Witness ==
    /\ Cardinality(Present(rows)) = 3
    /\ Cardinality(AtMin(rows)) = 2
    /\ nextBestFee = cheapestFee /\ nextBestFee = Some(100)

\* C6 as claimed: when two firms tie at the minimum fee both are flagged and
\* nextBestFee is the third fee in ascending order, absent if only the two
\* tied firms have a fee.
C6_NextBestIsThirdFee ==
    LET P == Present(rows) IN
    (P # {} /\ Cardinality(AtMin(rows)) = 2) =>
        /\ \A k \in Positions : table[k].row.firm \in AtMin(rows) => table[k].badge
        /\ nextBestFee =
              (IF Cardinality(P) = 2 THEN None
               ELSE Some(MinOver(rows, P \ AtMin(rows))))

\* C6 amended: when two firms tie at the minimum fee both are flagged and
\* nextBestFee is that tied minimum fee itself, whatever the third fee is
\* and also when only the two tied firms have a fee.
C6_NextBestIsTiedFee ==
    (Present(rows) # {} /\ Cardinality(AtMin(rows)) = 2) =>
        /\ \A k \in Positions : table[k].row.firm \in AtMin(rows) => table[k].badge
        /\ nextBestFee = Some(MinFee(rows))

C6_Witness ==
    /\ Len(rows) = 3 /\ selectedSize = 10000
    /\ rows[1].fee = Some(100) /\ rows[2].fee = Some(150) /\ rows[3].fee = Some(100)
    /\ table[1].badge /\ table[2].badge /\ ~table[3].badge
    /\ nextBestFee = Some(100)

\* C7: a savings note is shown on a row iff the row is flagged cheapest and
\* nextBestFee is present; its value is max(0, nextBestFee - fee), never
\* negative, equal to nextBestFee - cheapestFee, and 0 when two or more rows
\* tie at the minimum. Fees A = 100, B = 150, C absent give the order
\* A, B, C with only A flagged and A's savings 50.
C7_Savings ==
    /\ \A k \in Positions :
          /\ (table[k].savings # None) <=> (table[k].badge /\ nextBestFee # None)
          /\ table[k].savings # None =>
                /\ Val(table[k].savings) >= 0
                /\ Val(table[k].savings) = Val(nextBestFee) - Val(table[k].row.fee)
                /\ Val(table[k].savings) = Val(nextBestFee) - Val(cheapestFee)
                /\ Cardinality(AtMin(rows)) >= 2 => Val(table[k].savings) = 0
    /\ (/\ Len(rows) = 3
        /\ rows[1].fee = Some(100) /\ rows[2].fee = Some(150) /\ rows[3].fee = None)
          => /\ table[1].row.firm = 1 /\ table[2].row.firm = 2 /\ table[3].row.firm = 3
             /\ table[1].badge /\ ~table[2].badge /\ ~table[3].badge
             /\ table[1].savings = Some(50)
             /\ table[2].savings = None /\ table[3].savings = None
             /\ table[3].row.feePer10k = None

C7_Witness ==
    /\ Len(rows) = 3 /\ selectedSize = 10000
    /\ rows[1].fee = Some(100) /\ rows[2].fee = Some(150) /\ rows[3].fee = None
    /\ table[1].savings = Some(50)

\* C8: when no firm offers the selected size every row has an absent fee and
\* feePer10k, cheapestFee and nextBestFee are absent, no row is flagged, no
\* savings note is shown and the table keeps the catalog order; in every
\* state cheapestFee is absent iff no row has a fee.
C8_NoOffer ==
    /\ (cheapestFee = None) <=> (Present(rows) = {})
    /\ (\A i \in 1..Len(propFirms) : ~HasTier(i, selectedSize)) =>
          /\ \A i \in 1..Len(rows) : rows[i].fee = None /\ rows[i].feePer10k = None
          /\ cheapestFee = None /\ nextBestFee = None
          /\ Len(table) = Len(rows)
          /\ \A k \in Positions :
                ~table[k].badge /\ table[k].savings = None /\ table[k].row.firm = k

\* C9: whatever sizes were selected before, the rows, the two fees and the
\* table are those computed from the current selection and the catalog;
\* every row carries the current selection and sorting leaves the projected
\* row list in catalog order.
C9_FunctionOfSelection ==
    /\ rows = toFirmRows(propFirms, selectedSize)
    /\ \A i \in 1..Len(rows) : rows[i].accountSize = selectedSize /\ rows[i].firm = i
    /\ cheapestFee = cheapestOf(toFirmRows(propFirms, selectedSize))
    /\ nextBestFee = nextBestOf(toFirmRows(propFirms, selectedSize))
    /\ table = tableOf(engine, toFirmRows(propFirms, selectedSize),
                       cheapestOf(toFirmRows(propFirms, selectedSize)),
                       nextBestOf(toFirmRows(propFirms, selectedSize)))

C9_Witness ==
    /\ selectedSize # DefaultSize
    /\ Len(rows) = 3
    /\ rows[1].fee = None /\ rows[3].fee # None
    /\ table[1].row.firm # 1

\* C10: for every row with a present fee, feePer10k = fee / S * 10000, that
\* is feePer10k * S = fee * 10000; feePer10k is present iff fee is, and is 0
\* exactly when fee is 0.
C10_FeePer10k ==
    \A i \in 1..Len(rows) :
        /\ (rows[i].feePer10k # None) <=> (rows[i].fee # None)
        /\ rows[i].fee # None =>
              LET q == Val(rows[i].feePer10k) IN
              /\ q.den > 0
              /\ q.num * selectedSize = Val(rows[i].fee) * 10000 * q.den
              /\ (q.num = 0) <=> (Val(rows[i].fee) = 0)

C10_Witness ==
    /\ selectedSize = 25000
    /\ \E i \in 1..Len(rows) :
          rows[i].fee = Some(100) /\ rows[i].feePer10k = Some([num |-> 40, den |-> 1])

====
